---- MODULE Spec2Model ----
(***************************************************************************)
(* Model of txtai's batch search action,                                   *)
(* src/python/txtai/embeddings/search.py (class Search).                   *)
(*                                                                         *)
(* Conventions.                                                            *)
(*  - A Python str is a sequence of one-character strings, <<"1","0">>.    *)
(*  - Python None, where a str is expected, is the value None below.       *)
(*  - A list that may also be None is a record [none, val].                *)
(*  - Scores and weights are fixed-point numbers: the integer One stands   *)
(*    for 1.0, so 0.5 is One \div 2 and 1/r is One \div r.                 *)
(*  - Sequences are 1-based: query index x and rank r of the source        *)
(*    (0-based) are x+1 and r+1 here, so 1.0/(r+1) is One \div r.          *)
(***************************************************************************)
EXTENDS Integers, Sequences, FiniteSets, TLC

\* ------------------------------------------------------------------ bounds

\* Longest batch of queries.
MaxBatch == 2
\* Most entries an index holds for one query text.
MaxHits == 2
\* Largest limit a caller passes.
MaxLimit == 2
\* Most changes of the sparse index's isnormalized() answer during one call.
MaxFlips == 1

\* limit = limit if limit else 3
DefaultLimit == 3

\* ------------------------------------------------------------ fixed point

RECURSIVE Fact(_)
Fact(n) == IF n <= 1 THEN 1 ELSE n * Fact(n - 1)

\* 1.0; divisible by 2 and by every rank up to MaxHits.
One == 2 * Fact(MaxHits)

\* a * b of two fixed-point numbers.
Mul(a, b) == (a * b) \div One

\* weights = weights if weights is not None else 0.5
DefaultWeight == One \div 2

Min(a, b) == IF a < b THEN a ELSE b
Max(a, b) == IF a > b THEN a ELSE b

\* ---------------------------------------------------------------- strings

None == <<"None">>

Digits == {"0", "1", "2", "3", "4", "5", "6", "7", "8", "9"}

DigitVal(c) ==
  CASE c = "0" -> 0 [] c = "1" -> 1 [] c = "2" -> 2 [] c = "3" -> 3
    [] c = "4" -> 4 [] c = "5" -> 5 [] c = "6" -> 6 [] c = "7" -> 7
    [] c = "8" -> 8 [] c = "9" -> 9

\* str.isdigit(): non-empty and every character a digit.
isdigit(s) == Len(s) > 0 /\ \A i \in 1..Len(s) : s[i] \in Digits

\* int(s) of a digit string.
RECURSIVE int(_)
int(s) ==
  IF Len(s) = 0 THEN 0
  ELSE int(SubSeq(s, 1, Len(s) - 1)) * 10 + DigitVal(s[Len(s)])

\* Truth value of an optional str: None and "" are falsy.
Truthy(s) == s # None /\ Len(s) > 0

\* len(s.split()): the number of maximal runs of non-blank characters.
Tokens(s) ==
  Cardinality({i \in 1..Len(s) : s[i] # " " /\ (i = 1 \/ s[i - 1] = " ")})

\* ------------------------------------------------------- Search.limit

\* One pass of the loop body of limit(): the new qlimit, or a raised
\* TypeError when a non-empty, non-numeric str is compared with the int.
LimitStepWrong(acc, query) ==
  LET l == query.limit IN
  IF acc.raised \/ ~Truthy(l) THEN acc
  ELSE IF isdigit(l)
       THEN [acc EXCEPT !.value = IF int(l) # 0 THEN int(l) ELSE acc.value]
       ELSE [acc EXCEPT !.raised = TRUE]

LimitStep(acc, query) ==
  LET l == query.limit IN
  IF acc.raised \/ ~Truthy(l) THEN acc
  ELSE IF isdigit(l)
       THEN [acc EXCEPT !.value = IF int(l) # 0 /\ int(l) > acc.value
                                     THEN int(l) ELSE acc.value]
       ELSE [acc EXCEPT !.raised = TRUE]

RECURSIVE LimitLoop(_, _)
LimitLoop(qs, acc) ==
  IF Len(qs) = 0 THEN acc ELSE LimitLoop(Tail(qs), LimitStep(acc, Head(qs)))

\* limit(queries): [raised, value].
Limit(qs) == LimitLoop(qs, [raised |-> FALSE, value |-> 0])

\* ------------------------------------------------------ Search.extract

\* The (query index, similar text) pairs of query x, in clause order.
RECURSIVE ClausePairs(_, _)
ClausePairs(x, similar) ==
  IF Len(similar) = 0 THEN <<>>
  ELSE <<[x |-> x, text |-> Head(similar)[1]]>> \o ClausePairs(x, Tail(similar))

RECURSIVE EQueries(_, _)
EQueries(qs, x) ==
  IF x > Len(qs) THEN <<>>
  ELSE ClausePairs(x, qs[x].similar) \o EQueries(qs, x + 1)

\* candidates after one similar clause.
CandidateStep(candidates, params) ==
  IF Len(params) > 1 /\ isdigit(params[2])
  THEN IF int(params[2]) > candidates THEN int(params[2]) ELSE candidates
  ELSE candidates

RECURSIVE ClauseCandidates(_, _)
ClauseCandidates(similar, candidates) ==
  IF Len(similar) = 0 THEN candidates
  ELSE ClauseCandidates(Tail(similar), CandidateStep(candidates, Head(similar)))

RECURSIVE ExplicitCandidates(_, _)
ExplicitCandidates(qs, candidates) ==
  IF Len(qs) = 0 THEN candidates
  ELSE ExplicitCandidates(Tail(qs), ClauseCandidates(Head(qs).similar, candidates))

\* any(query.get("where") and len(query["where"].split()) > 1 ...)
Multitoken(qs) ==
  \E x \in 1..Len(qs) : Truthy(qs[x].where) /\ Tokens(qs[x].where) > 1

DefaultCandidatesWrong(qs, lim) == lim

DefaultCandidates(qs, lim) == IF Multitoken(qs) THEN lim * 10 ELSE lim

\* extract(queries, limit): [equeries, candidates].
Extract(qs, lim) ==
  LET explicit == ExplicitCandidates(qs, 0) IN
  [equeries |-> EQueries(qs, 1),
   candidates |-> IF explicit = 0 THEN DefaultCandidates(qs, lim) ELSE explicit]

\* ---------------------------------------------------------------- state

VARIABLES
  cfg,          \* the embeddings instance: ann, scoring, database, indexids, ids, query
  queries,      \* __call__'s queries: a sequence of [text, parse, reparse]
  limitArg,     \* __call__'s limit (0: None or 0)
  weightsArg,   \* __call__'s weights: [kind, a, b]
  annIndex,     \* what ann.search ranks for each query text
  sparseIndex,  \* what scoring.batchsearch ranks for each query text
  normalized,   \* what scoring.isnormalized() answers now
  pc,           \* position in __call__ / dbsearch / search
  ret,          \* who called search: "call" or "db"
  limit,        \* limit of __call__ and dbsearch
  weights,      \* weights of __call__, dbsearch and search
  parsed,       \* dbsearch: the parsed queries
  equeries,     \* dbsearch: (query index, text) pairs
  candidates,   \* dbsearch: number of candidates
  search,       \* dbsearch: the bulk index search results
  results,      \* dbsearch: one row per query so far
  output,       \* what __call__ returned: [none, val]
  raised,       \* the exception that ended the call, or "none"
  log,          \* the calls made to the collaborators, in order
  sq,           \* search: queries
  sk,           \* search: limit
  dense,        \* search: [none, val]
  sparse,       \* search: [none, val]
  fi,           \* search: position in zip(dense, sparse)
  fv,           \* search: v, 1 for dense and 2 for sparse
  fr,           \* search: position in vectors[v]
  uids,         \* search: the dict, as [id, score] in insertion order
  fres,         \* search: results
  formulas,     \* the answers isnormalized() gave during this call, in order
  flips         \* how often the answer changed during this call

vars == <<cfg, queries, limitArg, weightsArg, annIndex, sparseIndex, normalized,
          pc, ret, limit, weights, parsed, equeries, candidates, search, results,
          output, raised, log, sq, sk, dense, sparse, fi, fv, fr, uids, fres,
          formulas, flips>>

envVars == <<cfg, queries, limitArg, weightsArg, annIndex, sparseIndex>>
dbVars == <<parsed, equeries, candidates, search, results>>
fuseVars == <<fi, fv, fr, uids, fres, formulas>>

NoList == [none |-> TRUE, val |-> <<>>]
Some(l) == [none |-> FALSE, val |-> l]

\* Truth value of a list that may be None.
TruthyList(l) == ~l.none /\ Len(l.val) > 0

Event(op, x, texts, k, lists) ==
  [op |-> op, x |-> x, texts |-> texts, k |-> k, lists |-> lists]

\* ------------------------------------------------ dense, sparse, resolve

\* Index positions are 0..MaxDocs-1.
MaxDocs == 2

\* config["ids"]: position i is document MaxDocs + i.
Lookup(i) == MaxDocs + i

Take(s, n) == SubSeq(s, 1, Min(n, Len(s)))

\* ann.search / scoring.batchsearch for one query: the k best entries.
TopK(ranking, k) == Take(ranking, k)

\* [(i, score) for i, score in r if score > 0]
PositiveWrong(r) == SelectSeq(r, LAMBDA e : e.score >= 0)

Positive(r) == SelectSeq(r, LAMBDA e : e.score > 0)

\* resolve(results)
Resolve(rs) ==
  IF ~cfg.indexids /\ cfg.ids
  THEN [n \in 1..Len(rs) |->
          [j \in 1..Len(rs[n]) |-> [id |-> Lookup(rs[n][j].id), score |-> rs[n][j].score]]]
  ELSE rs

\* dense(queries, limit)
Dense(texts, k) ==
  Resolve([n \in 1..Len(texts) |-> Positive(TopK(annIndex[texts[n]], k))])

\* sparse(queries, limit)
Sparse(texts, k) ==
  Resolve([n \in 1..Len(texts) |-> TopK(sparseIndex[texts[n]], k)])

\* ------------------------------------------------------- fusion helpers

\* uids[uid] = 0.0 if absent; uids[uid] += add
Accumulate(d, uid, add) ==
  IF \E j \in 1..Len(d) : d[j].id = uid
  THEN [j \in 1..Len(d) |->
          IF d[j].id = uid THEN [id |-> uid, score |-> d[j].score + add] ELSE d[j]]
  ELSE Append(d, [id |-> uid, score |-> add])

\* One entry into the sorted list, after every entry that is not smaller.
InsertDesc(s, e) ==
  LET n == Cardinality({j \in 1..Len(s) : s[j].score >= e.score}) IN
  SubSeq(s, 1, n) \o <<e>> \o SubSeq(s, n + 1, Len(s))

RECURSIVE SortFrom(_, _)
SortFrom(d, acc) ==
  IF Len(d) = 0 THEN acc ELSE SortFrom(Tail(d), InsertDesc(acc, Head(d)))

\* sorted(uids.items(), key=lambda x: x[1], reverse=True): stable.
SortDesc(d) == SortFrom(d, <<>>)

\* sorted(...)[:limit]
RankedWrong(d, k) == SortDesc(d)

Ranked(d, k) == Take(SortDesc(d), k)

\* The hybrid score one entry adds: convex combination or reciprocal rank.
Hybrid(isnorm, score, r, w) ==
  IF isnorm THEN Mul(score, w) ELSE Mul(One \div r, w)

\* vectors[v] of the pair zip(dense, sparse) yields at position n.
Side(v, n) == IF v = 1 THEN dense.val[n] ELSE sparse.val[n]

\* -------------------------------------------------------------- __call__

\* __call__(queries, limit, weights): defaults, then the path taken.
Call ==
  /\ pc = "call"
  /\ limit' = IF limitArg # 0 THEN limitArg ELSE DefaultLimit
  /\ weights' = IF weightsArg.kind # "none" THEN weightsArg
                ELSE [kind |-> "scalar", a |-> DefaultWeight, b |-> 0]
  /\ IF ~cfg.ann /\ ~cfg.scoring
     THEN /\ output' = Some([n \in 1..Len(queries) |-> <<>>])
          /\ pc' = "done"
          /\ UNCHANGED <<ret, sq, sk>>
     ELSE IF ~cfg.indexids /\ cfg.database
     THEN /\ pc' = "parse"
          /\ UNCHANGED <<output, ret, sq, sk>>
     ELSE /\ pc' = "dense"
          /\ ret' = "call"
          /\ sq' = [n \in 1..Len(queries) |-> queries[n].text]
          /\ sk' = limit'
          /\ UNCHANGED output
  /\ UNCHANGED <<envVars, normalized, dbVars, raised, log, dense, sparse,
                 fuseVars, flips>>

\* ---------------------------------------------------------------- search

\* dense = self.dense(queries, limit) if self.ann else None
SearchDense ==
  /\ pc = "dense"
  /\ dense' = IF cfg.ann THEN Some(Dense(sq, sk)) ELSE NoList
  /\ log' = IF cfg.ann THEN Append(log, Event("ann", 0, sq, sk, <<>>)) ELSE log
  /\ pc' = "sparse"
  /\ UNCHANGED <<envVars, normalized, ret, limit, weights, dbVars, output,
                 raised, sq, sk, sparse, fuseVars, flips>>

\* sparse = self.sparse(queries, limit) if self.scoring else None
SearchSparse ==
  /\ pc = "sparse"
  /\ sparse' = IF cfg.scoring THEN Some(Sparse(sq, sk)) ELSE NoList
  /\ log' = IF cfg.scoring THEN Append(log, Event("batchsearch", 0, sq, sk, <<>>))
            ELSE log
  /\ pc' = "combine"
  /\ UNCHANGED <<envVars, normalized, ret, limit, weights, dbVars, output,
                 raised, sq, sk, dense, fuseVars, flips>>

\* if dense and sparse: the weights array and the empty results list
SearchCombine ==
  /\ pc = "combine"
  /\ IF TruthyList(dense) /\ TruthyList(sparse)
     THEN /\ weights' = IF weights.kind = "scalar"
                        THEN [kind |-> "pair", a |-> weights.a, b |-> One - weights.a]
                        ELSE weights
          /\ fres' = <<>>
          /\ fi' = 1
          /\ fv' = 1
          /\ fr' = 1
          /\ uids' = <<>>
          /\ pc' = "fuse"
     ELSE /\ pc' = "single"
          /\ UNCHANGED <<weights, fres, fi, fv, fr, uids>>
  /\ UNCHANGED <<envVars, normalized, ret, limit, dbVars, output, raised, log,
                 sq, sk, dense, sparse, formulas, flips>>

\* weights[v]
Weight(v) == IF v = 1 THEN weights.a ELSE weights.b

\* Number of pairs zip(dense, sparse) yields.
Zipped == Min(Len(dense.val), Len(sparse.val))

\* scores if weights[v] > 0 else []: a side is visited when its weight is positive.
VisitedWrong(v) == Weight(v) >= 0

Visited(v) == Weight(v) > 0

\* self.scoring.isnormalized(): the answers so far and this one.
ReadFlagOnce(answers) == IF Len(answers) = 0 THEN <<normalized>> ELSE answers

ReadFlag(answers) == Append(answers, normalized)

\* The body of the innermost loop, for entry fr of vectors[fv]: one call of
\* isnormalized() and one update of uids.
FuseEntry ==
  /\ pc = "fuse"
  /\ fi <= Zipped
  /\ fv <= 2
  /\ Visited(fv)
  /\ fr <= Len(Side(fv, fi))
  /\ LET e == Side(fv, fi)[fr]
         answers == ReadFlag(formulas)
     IN /\ formulas' = answers
        /\ uids' = Accumulate(uids, e.id,
                              Hybrid(answers[Len(answers)], e.score, fr, Weight(fv)))
  /\ fr' = fr + 1
  /\ UNCHANGED <<envVars, normalized, pc, ret, limit, weights, dbVars, output,
                 raised, log, sq, sk, dense, sparse, fi, fv, fres, flips>>

\* vectors[fv] is exhausted, or is not visited at all.
FuseSide ==
  /\ pc = "fuse"
  /\ fi <= Zipped
  /\ fv <= 2
  /\ (~Visited(fv) \/ fr > Len(Side(fv, fi)))
  /\ fv' = fv + 1
  /\ fr' = 1
  /\ UNCHANGED <<envVars, normalized, pc, ret, limit, weights, dbVars, output,
                 raised, log, sq, sk, dense, sparse, fi, uids, fres, formulas,
                 flips>>

\* results.append(sorted(uids.items(), ...)[:limit]), and the next pair.
FuseAppend ==
  /\ pc = "fuse"
  /\ fi <= Zipped
  /\ fv = 3
  /\ fres' = Append(fres, Ranked(uids, sk))
  /\ fi' = fi + 1
  /\ fv' = 1
  /\ fr' = 1
  /\ uids' = <<>>
  /\ UNCHANGED <<envVars, normalized, pc, ret, limit, weights, dbVars, output,
                 raised, log, sq, sk, dense, sparse, formulas, flips>>

\* What search returns: results, or dense if dense else sparse.
SearchResult ==
  IF pc = "fuse" THEN Some(fres)
  ELSE IF TruthyList(dense) THEN dense ELSE sparse

\* return of search, to __call__ or to dbsearch.
SearchReturn ==
  /\ pc \in {"fuse", "single"}
  /\ pc = "fuse" => fi > Zipped
  /\ IF ret = "call"
     THEN /\ output' = SearchResult
          /\ pc' = "done"
          /\ UNCHANGED <<search, raised>>
     ELSE IF SearchResult.none
     THEN /\ raised' = "TypeError"
          /\ pc' = "raised"
          /\ UNCHANGED <<search, output>>
     ELSE /\ search' = SearchResult.val
          /\ pc' = "multiplex"
          /\ UNCHANGED <<output, raised>>
  /\ UNCHANGED <<envVars, normalized, ret, limit, weights, parsed, equeries,
                 candidates, results, log, sq, sk, dense, sparse, fuseVars, flips>>

\* The sparse index changes what isnormalized() answers while a hybrid search
\* combines its scores.
FlipNormalized ==
  /\ pc = "fuse"
  /\ fi <= Zipped
  /\ flips < MaxFlips
  /\ normalized' = ~normalized
  /\ flips' = flips + 1
  /\ UNCHANGED <<envVars, pc, ret, limit, weights, dbVars, output, raised, log,
                 sq, sk, dense, sparse, fuseVars>>

\* -------------------------------------------------------------- dbsearch

\* One pass of the loop of parse(): database.parse, and for a query that is
\* no SQL, self.query and database.parse again.
DbParse ==
  /\ pc = "parse"
  /\ Len(parsed) < Len(queries)
  /\ LET x == Len(parsed) + 1
         query == queries[x]
         first == Event("parse", x, <<query.text>>, 0, <<>>)
     IN IF cfg.query /\ ~query.parse.select
        THEN /\ parsed' = Append(parsed, query.reparse)
             /\ log' = log \o <<first,
                                Event("translate", x, <<query.text>>, 0, <<>>),
                                Event("reparse", x, <<query.text>>, 0, <<>>)>>
        ELSE /\ parsed' = Append(parsed, query.parse)
             /\ log' = Append(log, first)
  /\ UNCHANGED <<envVars, normalized, pc, ret, limit, weights, equeries,
                 candidates, search, results, output, raised, sq, sk, dense,
                 sparse, fuseVars, flips>>

\* limit = max(limit, self.limit(queries))
DbLimit ==
  /\ pc = "parse"
  /\ Len(parsed) = Len(queries)
  /\ IF Limit(parsed).raised
     THEN /\ raised' = "TypeError"
          /\ pc' = "raised"
          /\ UNCHANGED limit
     ELSE /\ limit' = Max(limit, Limit(parsed).value)
          /\ pc' = "extract"
          /\ UNCHANGED raised
  /\ UNCHANGED <<envVars, normalized, ret, weights, dbVars, output, log, sq, sk,
                 dense, sparse, fuseVars, flips>>

\* ... if equeries else []
BulkSearchAlways(e) == TRUE

BulkSearch(e) == Len(e) > 0

\* equeries, candidates = self.extract(queries, limit), and the bulk index
\* search when there are embeddings queries: search = [] otherwise.
DbExtract ==
  /\ pc = "extract"
  /\ LET e == Extract(parsed, limit) IN
       /\ equeries' = e.equeries
       /\ candidates' = e.candidates
       /\ IF BulkSearch(e.equeries)
          THEN /\ pc' = "dense"
               /\ ret' = "db"
               /\ sq' = [n \in 1..Len(e.equeries) |-> e.equeries[n].text]
               /\ sk' = e.candidates
               /\ log' = Append(log, Event("search", 0, sq', sk', <<>>))
               /\ UNCHANGED search
          ELSE /\ pc' = "multiplex"
               /\ search' = <<>>
               /\ UNCHANGED <<ret, sq, sk, log>>
  /\ UNCHANGED <<envVars, normalized, limit, weights, parsed, results, output,
                 raised, dense, sparse, fuseVars, flips>>

\* indices = [i for i, (y, _) in enumerate(equeries) if x == y]
IndicesWrong(x) == {i \in 1..Len(equeries) : i = x}

Indices(x) == {i \in 1..Len(equeries) : equeries[i].x = x}

\* [s for i, s in enumerate(search) if i in indices]
RECURSIVE Pick(_, _, _)
Pick(s, indices, i) ==
  IF i > Len(s) THEN <<>>
  ELSE (IF i \in indices THEN <<s[i]>> ELSE <<>>) \o Pick(s, indices, i + 1)

\* One pass of the loop of dbsearch: database.search for query x.
DbRow ==
  /\ pc = "multiplex"
  /\ Len(results) < Len(parsed)
  /\ LET x == Len(results) + 1
         lists == Pick(search, Indices(x), 1)
     IN /\ results' = Append(results,
                             [query |-> parsed[x], lists |-> lists, limit |-> limit])
        /\ log' = Append(log, Event("rows", x, <<>>, limit, lists))
  /\ UNCHANGED <<envVars, normalized, pc, ret, limit, weights, parsed, equeries,
                 candidates, search, output, raised, sq, sk, dense, sparse,
                 fuseVars, flips>>

\* return results
DbReturn ==
  /\ pc = "multiplex"
  /\ Len(results) = Len(parsed)
  /\ output' = Some(results)
  /\ pc' = "done"
  /\ UNCHANGED <<envVars, normalized, ret, limit, weights, dbVars, raised, log,
                 sq, sk, dense, sparse, fuseVars, flips>>

\* --------------------------------------------------------------- inputs

Texts == {<<"a">>, <<"b">>}

\* Sequences over S of length 0..n.
SeqUpTo(S, n) == UNION {[1..m -> S] : m \in 0..n}

\* The rankings an index can hold for one text: at most MaxHits entries,
\* each document once, best score first.
Rankings(scores) ==
  {r \in SeqUpTo([id : 0..(MaxDocs - 1), score : scores], MaxHits) :
     /\ \A i, j \in 1..Len(r) : i # j => r[i].id # r[j].id
     /\ \A i \in 1..(Len(r) - 1) : r[i].score >= r[i + 1].score}

DenseScores == {0, One}
SparseScores == {One}

\* A full ranking for every text: document 0 first, at 1.0 and 0.5.
FixedRanking == [j \in 1..MaxHits |-> [id |-> j - 1, score |-> One \div j]]

\* Indexes whose ranking for "a" is any of R and for "b" is the fixed one.
Indexes(R) ==
  {[t \in Texts |-> IF t = <<"a">> THEN r ELSE FixedRanking] : r \in R}

Pred(select, lim, where, similar) ==
  [select |-> select, limit |-> lim, where |-> where, similar |-> similar]

Query(text, parse, reparse) == [text |-> text, parse |-> parse, reparse |-> reparse]

\* A query that is its own SQL: never translated.
Sql(p) == Query(<<"a">>, p, p)

NoWeights == [kind |-> "none", a |-> 0, b |-> 0]
Scalar(w) == [kind |-> "scalar", a |-> w, b |-> 0]
Pair(a, b) == [kind |-> "pair", a |-> a, b |-> b]

Configs(anns, scorings, databases, indexidss, idss, querys) ==
  [ann : anns, scoring : scorings, database : databases, indexids : indexidss,
   ids : idss, query : querys]

\* The state after construction, with the inputs of one call drawn from the
\* given sets.
InitWith(cfgs, batches, limits, weightss, anns, sparses, norms) ==
  /\ cfg \in cfgs
  /\ queries \in batches
  /\ limitArg \in limits
  /\ weightsArg \in weightss
  /\ annIndex \in anns
  /\ sparseIndex \in sparses
  /\ normalized \in norms
  /\ pc = "call"
  /\ ret = "call"
  /\ limit = 0
  /\ weights = NoWeights
  /\ parsed = <<>>
  /\ equeries = <<>>
  /\ candidates = 0
  /\ search = <<>>
  /\ results = <<>>
  /\ output = NoList
  /\ raised = "none"
  /\ log = <<>>
  /\ sq = <<>>
  /\ sk = 0
  /\ dense = NoList
  /\ sparse = NoList
  /\ fi = 1
  /\ fv = 1
  /\ fr = 1
  /\ uids = <<>>
  /\ fres = <<>>
  /\ formulas = <<>>
  /\ flips = 0

\* ------------------------------------------------- the index-only search

\* The plain text t, as a query.
Plain(t) ==
  Query(t, Pred(FALSE, None, None, <<<<t>>>>), Pred(FALSE, None, None, <<<<t>>>>))

\* The batches "a", "b", "a", ... of 0..MaxBatch plain queries.
PlainBatches ==
  {[i \in 1..n |-> IF i % 2 = 1 THEN Plain(<<"a">>) ELSE Plain(<<"b">>)] :
     n \in 0..MaxBatch}

InitSearch ==
  InitWith(Configs(BOOLEAN, BOOLEAN, {FALSE}, BOOLEAN, {TRUE}, {FALSE}),
           PlainBatches,
           {1, MaxLimit},
           {NoWeights, Scalar(One), Pair(One, 0), Pair(0, One)},
           Indexes(Rankings(DenseScores)),
           Indexes(Rankings(SparseScores)),
           BOOLEAN)

NextSearch ==
  \/ Call
  \/ SearchDense
  \/ SearchSparse
  \/ SearchCombine
  \/ FuseEntry
  \/ FuseSide
  \/ FuseAppend
  \/ SearchReturn

SpecSearch == InitSearch /\ [][NextSearch]_vars

(* C7: every list the dense step hands on holds only entries with score > 0,
   and they are, in the same order and with the same scores, the entries of
   the ANN search's output whose score is positive (their ids resolved). *)
AnnOutput(n) == TopK(annIndex[sq[n]], sk)

ResolvedId(i) == IF ~cfg.indexids /\ cfg.ids THEN MaxDocs + i ELSE i

C7_DensePositive ==
  ~dense.none =>
    /\ Len(dense.val) = Len(sq)
    /\ \A n \in 1..Len(dense.val) :
         LET out == dense.val[n]
             raw == AnnOutput(n)
         IN /\ \A j \in 1..Len(out) : out[j].score > 0
            /\ Len(out) = Cardinality({m \in 1..Len(raw) : raw[m].score > 0})
            /\ \A j \in 1..Len(out) :
                 \E m \in 1..Len(raw) :
                   /\ raw[m].score = out[j].score
                   /\ ResolvedId(raw[m].id) = out[j].id
                   /\ Cardinality({k \in 1..(m - 1) : raw[k].score > 0}) = j - 1

C7_Witness ==
  /\ pc = "done"
  /\ ~dense.none
  /\ \E n \in 1..Len(dense.val) :
       /\ Len(dense.val[n]) = 1
       /\ Len(AnnOutput(n)) = 2
       /\ AnnOutput(n)[2].score = 0

(* C6: the index-only search with limit k returns at most k entries for
   every query, whether dense, sparse or hybrid, whatever the weights. *)
C6_AtMostLimit ==
  /\ \A n \in 1..Len(fres) : Len(fres[n]) <= sk
  /\ (pc = "done" /\ ~output.none) =>
       \A n \in 1..Len(output.val) : Len(output.val[n]) <= limit

Ids(r) == {r[j].id : j \in 1..Len(r)}

C6_Witness ==
  /\ pc = "done"
  /\ TruthyList(dense)
  /\ TruthyList(sparse)
  /\ weights.a > 0
  /\ weights.b > 0
  /\ \E n \in 1..Len(output.val) :
       /\ Len(output.val[n]) = limit
       /\ Cardinality(Ids(dense.val[n]) \cup Ids(sparse.val[n])) > limit

(* C5: with both indexes configured, normalized sparse scores and weights
   (1, 0) or the scalar 1, the search returns exactly the dense lists: the
   same ids with the same scores in the same order. *)
C5_DenseOnly ==
  (/\ pc = "done"
   /\ cfg.ann
   /\ cfg.scoring
   /\ normalized
   /\ weightsArg \in {Scalar(One), Pair(One, 0)})
  => (~output.none /\ output.val = dense.val)

C5_Witness ==
  /\ pc = "done"
  /\ cfg.ann
  /\ cfg.scoring
  /\ normalized
  /\ weightsArg = Scalar(One)
  /\ Len(fres) = 2
  /\ Len(output.val[1]) = 2
  /\ Len(sparse.val[1]) = 2
  /\ sparse.val[1][1].id # dense.val[1][1].id

\* ------------------------- the hybrid search with a changing isnormalized()

InitFlag ==
  InitWith(Configs({TRUE}, {TRUE}, {FALSE}, BOOLEAN, {TRUE}, {FALSE}),
           PlainBatches,
           {1, MaxLimit},
           {NoWeights, Pair(One, 0)},
           Indexes(Rankings(SparseScores)),
           Indexes(Rankings(SparseScores)),
           BOOLEAN)

NextFlag == NextSearch \/ FlipNormalized

SpecFlag == InitFlag /\ [][NextFlag]_vars

RECURSIVE SumLen(_, _)
SumLen(lists, n) == IF n = 0 THEN 0 ELSE Len(lists[n]) + SumLen(lists, n - 1)

\* The entries of the first n pairs of zip(dense, sparse) that lie on a side
\* with a positive weight.
EntriesToVisit(n) ==
  (IF weights.a > 0 THEN SumLen(dense.val, n) ELSE 0)
  + (IF weights.b > 0 THEN SumLen(sparse.val, n) ELSE 0)

Fused == pc = "done" /\ TruthyList(dense) /\ TruthyList(sparse)

(* C8, as stated: within one hybrid fusion call every entry is accumulated
   with the same formula, the flag being read once, even if its value
   changes during the call. *)
C8_SameFormula ==
  /\ \A i, j \in 1..Len(formulas) : formulas[i] = formulas[j]
  /\ Fused => Len(formulas) = 1

(* C8, amended: the flag is read once for every visited entry (every entry
   of a side whose weight is positive), so as often as there are such
   entries, and the entries of one call are accumulated with the same formula
   when the flag does not change during the call. *)
C8_ReadPerEntry ==
  /\ Fused => Len(formulas) = EntriesToVisit(Len(fres))
  /\ flips = 0 => \A i, j \in 1..Len(formulas) : formulas[i] = formulas[j]

C8_Witness ==
  /\ Fused
  /\ flips = 1
  /\ Len(formulas) = 4
  /\ formulas[1] # formulas[4]

\* ------------------------------------------------------- the whole call

\* Plain text "a": no SQL; translated, it has two similar clauses and LIMIT 3.
QueryA ==
  Query(<<"a">>,
        Pred(FALSE, None, None, <<<<<<"a">>>>>>),
        Pred(TRUE, <<"3">>, None, <<<<<<"a">>>>, <<<<"b">>>>>>))

\* SQL with one similar clause, a two-token filter and LIMIT 4.
QueryB ==
  Sql(Pred(TRUE, <<"4">>, <<"x", " ", "y">>, <<<<<<"b">>>>>>))

\* SQL with no similar clause and no LIMIT.
QueryC == Sql(Pred(TRUE, None, <<"x">>, <<>>))

\* SQL whose LIMIT clause is no number.
QueryD == Sql(Pred(TRUE, <<"x">>, None, <<<<<<"a">>, <<"1">>>>>>))

Catalogue == {QueryA, QueryB, QueryC, QueryD}

Init ==
  InitWith(Configs(BOOLEAN, BOOLEAN, BOOLEAN, BOOLEAN, BOOLEAN, BOOLEAN),
           SeqUpTo(Catalogue, MaxBatch),
           0..MaxLimit,
           {NoWeights, Scalar(One)},
           Indexes({FixedRanking}),
           Indexes({<<>>, FixedRanking}),
           BOOLEAN)

Next ==
  \/ Call
  \/ DbParse
  \/ DbLimit
  \/ DbExtract
  \/ SearchDense
  \/ SearchSparse
  \/ SearchCombine
  \/ FuseEntry
  \/ FuseSide
  \/ FuseAppend
  \/ SearchReturn
  \/ DbRow
  \/ DbReturn

Spec == Init /\ [][Next]_vars

\* The path __call__ takes (lines 55-62).
NoIndex == ~cfg.ann /\ ~cfg.scoring
Structured == ~NoIndex /\ ~cfg.indexids /\ cfg.database

\* The parsed form dbsearch works on for query x.
ParsedForm(x) ==
  IF cfg.query /\ ~queries[x].parse.select THEN queries[x].reparse
  ELSE queries[x].parse

\* The limit __call__ works with.
CallerLimit == IF limitArg # 0 THEN limitArg ELSE DefaultLimit

(* C1: the batch entry point returns a sequence with one element per input
   query, the i-th being the result for the i-th query: for every batch, the
   empty one included, and every configuration. *)
C1_OneResultPerQuery ==
  pc = "done" =>
    /\ ~output.none
    /\ Len(output.val) = Len(queries)
    /\ \A x \in 1..Len(queries) :
         /\ NoIndex => output.val[x] = <<>>
         /\ Structured => output.val[x].query = ParsedForm(x)
         /\ (~Structured /\ cfg.ann /\ ~cfg.scoring) =>
              output.val[x] = Dense(<<queries[x].text>>, CallerLimit)[1]
         /\ (~Structured /\ ~cfg.ann /\ cfg.scoring) =>
              output.val[x] = Sparse(<<queries[x].text>>, CallerLimit)[1]

\* The explicit numeric limit clauses of the batch.
NumericLimits ==
  {int(parsed[x].limit) :
     x \in {y \in 1..Len(parsed) : parsed[y].limit # None /\ isdigit(parsed[y].limit)}}

Largest(S) == CHOOSE m \in S : \A y \in S : m >= y

EffectiveLimit == Largest(NumericLimits \cup {CallerLimit})

(* C3: on the structured path the effective limit of the batch is the larger
   of the caller's limit and the largest explicit numeric limit clause of any
   parsed query, and every query's row resolution is passed that limit. *)
C3_EffectiveLimit ==
  /\ pc \in {"extract", "multiplex"} => limit = EffectiveLimit
  /\ \A i \in 1..Len(log) : log[i].op = "rows" => log[i].k = EffectiveLimit
  /\ (pc = "done" /\ Structured) =>
       \A x \in 1..Len(queries) : output.val[x].limit = EffectiveLimit

C3_Witness ==
  /\ pc = "done"
  /\ Structured
  /\ Len(queries) = 2
  /\ parsed[1].limit = <<"3">>
  /\ parsed[2].limit = <<"4">>
  /\ limitArg = 1
  /\ output.val[1].limit = 4
  /\ output.val[2].limit = 4

\* Number of similar clauses of the parsed queries before query x.
RECURSIVE Offset(_)
Offset(x) == IF x <= 1 THEN 0 ELSE Offset(x - 1) + Len(parsed[x - 1].similar)

(* C9: the CandidateBatch lists the similar clauses in query order, then
   clause order, and the row resolution of query x is passed exactly the
   fused lists of the entries that come from query x, in that order: none
   when it has no similar clause, no list of another query, and every list
   to one query. *)
C9_Multiplex ==
  pc \in {"multiplex", "done"} /\ Structured =>
    /\ Len(search) = Len(equeries)
    /\ Len(equeries) = Offset(Len(parsed) + 1)
    /\ \A x \in 1..Len(parsed) :
         \A c \in 1..Len(parsed[x].similar) :
           equeries[Offset(x) + c] = [x |-> x, text |-> parsed[x].similar[c][1]]
    /\ \A x \in 1..Len(results) :
         results[x].lists =
           SubSeq(search, Offset(x) + 1, Offset(x) + Len(parsed[x].similar))

C9_Witness ==
  /\ pc = "done"
  /\ Structured
  /\ Len(parsed) = 2
  /\ Len(parsed[1].similar) = 2
  /\ Len(parsed[2].similar) = 1
  /\ Len(output.val[1].lists) = 2
  /\ Len(output.val[2].lists) = 1
  /\ output.val[1].lists[1] # output.val[1].lists[2]
  /\ output.val[2].lists[1] # output.val[1].lists[1]

\* The positions of the log that hold a call of op.
At(op) == {i \in 1..Len(log) : log[i].op = op}

Retrieval == At("search") \cup At("ann") \cup At("batchsearch")

(* C10: a structured batch call is one ordered pass: every parse, translation
   and reparse comes before the index search; the index search is called once
   when there are embeddings queries and never when there are none, with
   their texts in order and the shared number of candidates; and every row
   resolution comes after it, in query order. *)
C10_SinglePass ==
  Structured =>
    /\ \A i \in Retrieval \cup At("rows") :
         /\ \A j \in At("parse") \cup At("translate") \cup At("reparse") : j < i
         /\ Cardinality(At("parse")) = Len(queries)
         /\ Len(parsed) = Len(queries)
    /\ \A i \in At("rows") : \A j \in Retrieval : j < i
    /\ \A i \in At("rows") : log[i].x = Cardinality({j \in At("rows") : j <= i})
    /\ Cardinality(At("search")) <= 1
    /\ Cardinality(At("ann")) <= 1
    /\ Cardinality(At("batchsearch")) <= 1
    /\ \A i \in At("search") :
         /\ Len(log[i].texts) > 0
         /\ log[i].texts = [n \in 1..Len(equeries) |-> equeries[n].text]
         /\ log[i].k = candidates
    /\ \A i \in At("ann") \cup At("batchsearch") :
         /\ log[i].texts = [n \in 1..Len(equeries) |-> equeries[n].text]
         /\ log[i].k = candidates
    /\ pc \in {"multiplex", "done"} =>
         /\ Cardinality(At("search")) = (IF Len(equeries) > 0 THEN 1 ELSE 0)
         /\ Cardinality(At("ann")) = (IF Len(equeries) > 0 /\ cfg.ann THEN 1 ELSE 0)
         /\ Cardinality(At("batchsearch")) =
              (IF Len(equeries) > 0 /\ cfg.scoring THEN 1 ELSE 0)

C10_Witness ==
  /\ pc = "done"
  /\ Structured
  /\ Len(queries) = 2
  /\ At("translate") # {}
  /\ Cardinality(At("search")) = 1
  /\ Cardinality(At("ann")) = 1
  /\ Cardinality(At("batchsearch")) = 1
  /\ Cardinality(At("rows")) = 2
  /\ Len(equeries) = 3

\* ------------------------------------------------- the limit derivation

\* LIMIT clauses: none, empty, zero, numbers, and text that is no number.
LimitClauses ==
  {None, <<>>, <<"0">>, <<"2">>, <<"7">>, <<"1", "0">>, <<"x">>, <<"2", "x">>,
   <<"-", "1">>}

StructuredConfigs == Configs({TRUE}, {FALSE}, {TRUE}, {FALSE}, {FALSE}, {FALSE})

InitLimit ==
  InitWith(StructuredConfigs,
           SeqUpTo({Sql(Pred(TRUE, l, None, <<>>)) : l \in LimitClauses}, MaxBatch),
           0..MaxLimit,
           {NoWeights},
           Indexes({FixedRanking}),
           Indexes({FixedRanking}),
           {TRUE})

NextLimit ==
  \/ Call
  \/ DbParse
  \/ DbLimit

SpecLimit == InitLimit /\ [][NextLimit]_vars

(* C2: the limit derivation never fails: a missing or non-numeric limit
   clause counts as absent, and for every batch the derivation returns the
   largest numeric limit clause. *)
C2_LimitNeverRaises ==
  /\ raised = "none"
  /\ pc = "extract" => limit = EffectiveLimit

\* --------------------------------------------- the candidates derivation

SimilarClauses ==
  {<<>>,
   <<<<<<"a">>>>>>,
   <<<<<<"a">>, <<"5">>>>>>,
   <<<<<<"a">>, <<"5">>>>, <<<<"b">>, <<"2", "0">>>>>>,
   <<<<<<"a">>, <<"2", "0">>>>, <<<<"b">>, <<"5">>>>>>,
   <<<<<<"a">>, <<"0">>>>>>,
   <<<<<<"a">>, <<"x">>>>, <<<<"b">>>>>>}

WhereClauses == {None, <<"x">>, <<"x", " ", "y">>, <<" ", "x", " ">>}

InitExtract ==
  InitWith(StructuredConfigs,
           SeqUpTo({Sql(Pred(TRUE, None, w, c)) :
                      w \in WhereClauses, c \in SimilarClauses}
                   \cup {Sql(Pred(TRUE, <<"4">>, <<"x", " ", "y">>, <<>>))},
                   MaxBatch),
           0..MaxLimit,
           {NoWeights},
           Indexes({FixedRanking}),
           Indexes({FixedRanking}),
           {TRUE})

NextExtract ==
  \/ Call
  \/ DbParse
  \/ DbLimit
  \/ DbExtract

SpecExtract == InitExtract /\ [][NextExtract]_vars

\* The second arguments of the similar clauses of the batch that are positive
\* integers.
ExplicitArguments ==
  UNION {{int(parsed[x].similar[c][2]) :
            c \in {d \in 1..Len(parsed[x].similar) :
                     /\ Len(parsed[x].similar[d]) > 1
                     /\ isdigit(parsed[x].similar[d][2])
                     /\ int(parsed[x].similar[d][2]) > 0}} :
         x \in 1..Len(parsed)}

\* A filter clause with more than one whitespace-separated token.
MultiTokenFilter ==
  \E x \in 1..Len(parsed) :
    /\ parsed[x].where # None
    /\ \E i, j, k \in 1..Len(parsed[x].where) :
         /\ i < j
         /\ j < k
         /\ parsed[x].where[i] # " "
         /\ parsed[x].where[j] = " "
         /\ parsed[x].where[k] # " "

Extracted == Structured /\ pc \in {"dense", "multiplex"}

(* C4: the shared candidate count is the largest explicit positive-integer
   second argument of any similar clause of the batch; when there is none it
   is limit * 10 if a query has a filter of more than one token, and limit
   otherwise. *)
C4_Candidates ==
  Extracted =>
    candidates = IF ExplicitArguments # {} THEN Largest(ExplicitArguments)
                 ELSE IF MultiTokenFilter THEN limit * 10
                 ELSE limit

C4_Witness ==
  /\ Extracted
  /\ Len(parsed) = 2
  /\ ExplicitArguments = {}
  /\ parsed[1].where = <<"x">>
  /\ parsed[2].where = <<"x", " ", "y">>
  /\ parsed[2].limit = <<"4">>
  /\ candidates = 40

C4_WitnessExplicit ==
  /\ Extracted
  /\ ExplicitArguments = {5, 20}
  /\ candidates = 20

====
